---- MODULE Spec2Model ----
(***************************************************************************)
(* Serial-number stock transfers: the committed tables, the request        *)
(* handlers of routes.py running as concurrent units of work, each with    *)
(* its own ORM session, and the ERP (SAP B1) behind the posting gateway.   *)
(***************************************************************************)
EXTENDS Integers, Sequences, FiniteSets, TLC

\* ---------------------------------------------------------------- bounds
MaxDocs == 1
MaxReqs == 2
MaxItems == 1
MaxErpDocs == 2
MaxQty == 1
MaxSerials == 1

DocIds == 1..MaxDocs
Reqs == 1..MaxReqs

NULL == "NULL"
UtcNow == "utcnow"

\* ----------------------------------------------------------------- users
\* users table rows: an admin, a plain user on role defaults, a non-admin
\* whose stored permissions grant the QC dashboard, and a manager on role
\* defaults.
UserIds == {"u1", "u2", "u3", "u4"}

\* More rows, for the permission checks: an admin whose stored permissions
\* deny every screen, a user of role 'qc' on role defaults, a manager whose
\* stored permissions deny the QC dashboard, and a manager whose stored text
\* is not JSON.
PermUserIds == {"u5", "u6", "u7", "u8"}

Screens == {"dashboard", "serial_transfer", "user_management", "qc_dashboard"}

NoPermissions == [kind |-> "null", dict |-> << >>]

users ==
  [u \in UserIds \cup PermUserIds |->
     CASE u = "u1" -> [role |-> "admin", permissions |-> NoPermissions]
       [] u = "u2" -> [role |-> "user", permissions |-> NoPermissions]
       [] u = "u4" -> [role |-> "manager", permissions |-> NoPermissions]
       [] u = "u5" -> [role |-> "admin",
                       permissions |-> [kind |-> "json",
                                        dict |-> [s \in Screens |-> FALSE]]]
       [] u = "u6" -> [role |-> "qc", permissions |-> NoPermissions]
       [] u = "u7" -> [role |-> "manager",
                       permissions |-> [kind |-> "json",
                                        dict |-> [s \in {"qc_dashboard"} |-> FALSE]]]
       [] u = "u8" -> [role |-> "manager",
                       permissions |-> [kind |-> "invalid", dict |-> << >>]]
       [] OTHER    -> [role |-> "user",
                       permissions |-> [kind |-> "json",
                                        dict |-> [s \in {"qc_dashboard"} |-> TRUE]]]]

\* Role defaults that hand the QC dashboard to the roles 'qc' and 'manager'.
get_default_permissions_WithQc(role) ==
  [s \in Screens |->
     IF role = "admin" THEN TRUE
     ELSE IF s = "qc_dashboard" THEN role \in {"qc", "manager"}
     ELSE IF s = "serial_transfer" THEN role \in {"manager", "user"}
     ELSE IF s = "user_management" THEN role = "manager"
     ELSE TRUE]

get_default_permissions(role) ==
  LET permissions == [s \in {"dashboard", "serial_transfer", "user_management"} |->
                        s = "dashboard"]
  IN  IF role = "admin" THEN [s \in DOMAIN permissions |-> TRUE]
      ELSE IF role = "manager"
        THEN [s \in DOMAIN permissions |->
                IF s \in {"serial_transfer", "user_management"} THEN TRUE
                ELSE permissions[s]]
      ELSE IF role = "user"
        THEN [s \in DOMAIN permissions |->
                IF s = "serial_transfer" THEN TRUE ELSE permissions[s]]
      ELSE permissions

\* Stored text that does not parse answered with the defaults of the role.
get_permissions_DefaultsOnError(u) ==
  LET p == users[u].permissions
  IN  IF p.kind = "json" THEN p.dict
      ELSE get_default_permissions(users[u].role)

\* json.loads of the stored text: a dictionary, or {} when it does not parse.
get_permissions(u) ==
  LET p == users[u].permissions
  IN  IF p.kind = "null" THEN get_default_permissions(users[u].role)
      ELSE IF p.kind = "json" THEN p.dict
      ELSE << >>

\* The check without the admin branch: an admin is held to the stored or
\* default permissions like anybody else.
has_permission_NoAdminOverride(u, screen) ==
  LET d == get_permissions(u)
  IN  IF screen \in DOMAIN d THEN d[screen] ELSE FALSE

\* models.py 73-77
has_permission(u, screen) ==
  IF users[u].role = "admin" THEN TRUE
  ELSE LET d == get_permissions(u)
       IN  IF screen \in DOMAIN d THEN d[screen] ELSE FALSE

\* ------------------------------------------------------- request inputs
\* qc_notes as sent by the client, and what str.strip() makes of each.
NoteInputs == {"", " ", "ok"}

strip(s) == IF s = " " THEN "" ELSE s

ApproveNotes == {"ok"}

\* ------------------------------------------------------------- the state
VARIABLES
  transfers,   \* serial_number_transfers: id -> committed row
  items,       \* serial_number_transfer_items: <<transfer id, line>> -> row
  serials,     \* serial_number_transfer_serials: item key -> its serial rows
  next_id,     \* AUTO_INCREMENT of serial_number_transfers
  erp,         \* stock transfers the ERP has created: the local id of each
  reqs,        \* request slot -> the unit of work running in it
  mig          \* the database as a migration script sees it, and the script's run

vars == <<transfers, items, serials, next_id, erp, reqs, mig>>

Idle == [pc |-> "idle"]

\* migration_cleanup.py 27-35
keep_tables ==
  {"users", "inventory_transfers", "inventory_transfer_items",
   "serial_number_transfers", "serial_number_transfer_items",
   "serial_number_transfer_serials", "branches"}

ItemsOf(tid) == {k \in DOMAIN items : k[1] = tid}

\* jsonify(...) of a handler with its HTTP status, next to the request it
\* answers: the handler, current_user, transfer_id and the qc_notes sent.
Response(op, u, tid, qc_notes, success, error, code, payload) ==
  [pc |-> "done", op |-> op, user |-> u, tid |-> tid, qc_notes |-> qc_notes,
   success |-> success, error |-> error, code |-> code, payload |-> payload]

Free(r) == reqs[r].pc \in {"idle", "done"}

Init ==
  /\ transfers = << >>
  /\ items = << >>
  /\ serials = << >>
  /\ next_id = 1
  /\ erp = << >>
  /\ reqs = [r \in Reqs |-> Idle]
  /\ mig = [pc |-> "idle", tables |-> keep_tables]

\* ---------------------------------------------- ORM session and commits
\* db.session.rollback(): nothing the session changed reaches the tables.
session_rollback == UNCHANGED <<transfers, items, serials, next_id>>

\* A commit that writes the document's row and leaves the lines alone.
session_commit_TransferOnly(tid, transfer, dirty, qc_status) ==
  /\ transfers' = [transfers EXCEPT ![tid] =
                     [c \in DOMAIN transfers[tid] |->
                        IF c \in dirty THEN transfer[c] ELSE transfers[tid][c]]]
  /\ UNCHANGED <<items, serials, next_id>>

\* The UPDATE statements of db.session.commit(): the columns the handler
\* assigned, written to the row with the session object's primary key, and
\* qc_status written to every line the session loaded through transfer.items.
session_commit(tid, transfer, dirty, qc_status) ==
  /\ transfers' = [transfers EXCEPT ![tid] =
                     [c \in DOMAIN transfers[tid] |->
                        IF c \in dirty THEN transfer[c] ELSE transfers[tid][c]]]
  /\ items' = [k \in DOMAIN items |->
                 IF k \in DOMAIN qc_status
                   THEN [items[k] EXCEPT !.qc_status = qc_status[k]]
                   ELSE items[k]]
  /\ UNCHANGED <<serials, next_id>>

\* ------------------------------------------------ the ERP posting gateway
\* SAPIntegration.create_serial_number_stock_transfer: the ERP creates a
\* stock transfer and answers with its document number, or the call reports
\* a failure (with or without error text), or it raises.
SapDocNumber(n) == "SAP-" \o ToString(9000 + n)

SapFailures ==
  { [success |-> FALSE, raised |-> FALSE, has_error |-> TRUE,
     error |-> "Insufficient stock", document_number |-> NULL],
    [success |-> FALSE, raised |-> FALSE, has_error |-> FALSE,
     error |-> NULL, document_number |-> NULL],
    [success |-> FALSE, raised |-> TRUE, has_error |-> TRUE,
     error |-> "Connection timed out", document_number |-> NULL] }

create_serial_number_stock_transfer ==
  SapFailures \cup
  IF Len(erp) < MaxErpDocs
    THEN { [success |-> TRUE, raised |-> FALSE, has_error |-> FALSE,
            error |-> NULL, document_number |-> SapDocNumber(Len(erp) + 1)] }
    ELSE {}

\* ------------------------------------------------------------ qc-approve
\* The handlers without their permission check.
QcPermissionRequired_Unchecked(u) == FALSE

\* routes.py 364 and 424: the request is refused with 403
QcPermissionRequired(u) == ~has_permission(u, "qc_dashboard")

ApproveDirty ==
  {"status", "qc_approver_id", "qc_approved_at", "qc_notes", "sap_document_number"}

\* The tentative approval without line 380: no timestamp is recorded.
TentativeApproval_NoTimestamp(transfer, u, qc_notes) ==
  [transfer EXCEPT !.status = "qc_approved",
                   !.qc_approver_id = u,
                   !.qc_notes = qc_notes]

\* routes.py 376-381
TentativeApproval(transfer, u, qc_notes) ==
  [transfer EXCEPT !.status = "qc_approved",
                   !.qc_approver_id = u,
                   !.qc_approved_at = UtcNow,
                   !.qc_notes = qc_notes]

\* The posting without line 403: the status is left as tentatively set.
PostedTransfer_StatusNotAdvanced(transfer, sap_result) ==
  [transfer EXCEPT !.sap_document_number = sap_result.document_number]

\* routes.py 402-403
PostedTransfer(transfer, sap_result) ==
  [transfer EXCEPT !.sap_document_number = sap_result.document_number,
                   !.status = "posted"]

\* The approval without its status guard.
ApproveGuard_Missing(transfer) == TRUE

\* routes.py 370
ApproveGuard(transfer) == transfer.status = "submitted"

\* has_permission, get_or_404, the status guard and the tentative approval
\* in the session (routes.py 362-385)
QcApproveBegin(r, u, tid, qc_notes) ==
  /\ Free(r)
  /\ UNCHANGED <<transfers, items, serials, next_id, erp>>
  /\ IF QcPermissionRequired(u)
       THEN reqs' = [reqs EXCEPT ![r] =
              Response("approve", u, tid, qc_notes, FALSE, "QC permissions required", 403, NULL)]
     ELSE IF tid \notin DOMAIN transfers
       THEN reqs' = [reqs EXCEPT ![r] =
              Response("approve", u, tid, qc_notes, FALSE, "404 Not Found", 500, NULL)]
     ELSE IF ~ApproveGuard(transfers[tid])
       THEN reqs' = [reqs EXCEPT ![r] =
              Response("approve", u, tid, qc_notes, FALSE,
                       "Only submitted transfers can be approved", 400, NULL)]
     ELSE reqs' = [reqs EXCEPT ![r] =
              [pc |-> "sap", op |-> "approve", user |-> u, tid |-> tid,
               qc_notes |-> qc_notes,
               transfer |-> TentativeApproval(transfers[tid], u, qc_notes),
               qc_status |-> [k \in ItemsOf(tid) |-> "approved"],
               sap_calls |-> 0]]

\* The failure branch undoing the status by hand instead of rolling back:
\* 'submitted' is written back, the approver, timestamp, notes and the lines'
\* qc_status stay as tentatively set.
ApproveSapFailed_StatusOnly(r, sap_result) ==
  /\ session_commit(reqs[r].tid, [reqs[r].transfer EXCEPT !.status = "submitted"],
                    ApproveDirty, reqs[r].qc_status)
  /\ erp' = erp
  /\ reqs' = [reqs EXCEPT ![r] =
       Response("approve", reqs[r].user, reqs[r].tid, reqs[r].qc_notes, FALSE,
                "SAP B1 posting failed", 500, NULL)]

\* The failure branch without db.session.rollback(): the tentative approval
\* is flushed and stays.
ApproveSapFailed_NoRollback(r, sap_result) ==
  /\ session_commit(reqs[r].tid, reqs[r].transfer, ApproveDirty, reqs[r].qc_status)
  /\ erp' = erp
  /\ reqs' = [reqs EXCEPT ![r] =
       Response("approve", reqs[r].user, reqs[r].tid, reqs[r].qc_notes, FALSE,
                "SAP B1 posting failed", 500, NULL)]

\* The failure branch posting once more instead of answering.
ApproveSapFailed_PostsAgain(r, sap_result) ==
  /\ session_rollback
  /\ erp' = erp
  /\ reqs' = [reqs EXCEPT ![r].sap_calls = @ + 1]

\* The failure branch answering with a fixed text, whatever the gateway said.
ApproveSapFailed_FixedText(r, sap_result) ==
  /\ session_rollback
  /\ erp' = erp
  /\ reqs' = [reqs EXCEPT ![r] =
       Response("approve", reqs[r].user, reqs[r].tid, reqs[r].qc_notes, FALSE,
                "SAP B1 posting failed", 500, NULL) @@ [sap_result |-> sap_result]]

\* The failure branch of the posting (routes.py 394-399) and the except
\* branch when the gateway raises (routes.py 415-418). The answer is kept
\* next to what the gateway said, sap_result.
ApproveSapFailed(r, sap_result) ==
  /\ session_rollback
  /\ erp' = erp
  /\ reqs' = [reqs EXCEPT ![r] =
       (IF sap_result.raised
          THEN Response("approve", reqs[r].user, reqs[r].tid, reqs[r].qc_notes, FALSE, sap_result.error, 500, NULL)
          ELSE Response("approve", reqs[r].user, reqs[r].tid, reqs[r].qc_notes, FALSE,
                        "SAP B1 posting failed: " \o
                          (IF sap_result.has_error THEN sap_result.error
                           ELSE "Unknown SAP error"),
                        500, NULL))
       @@ [sap_result |-> sap_result]]

\* The gateway call (routes.py 387-403): on success the ERP holds a new stock
\* transfer and the session object is marked posted, not yet committed.
QcApprovePost(r) ==
  /\ reqs[r].pc = "sap"
  /\ \E sap_result \in create_serial_number_stock_transfer :
       IF ~sap_result.success
         THEN ApproveSapFailed(r, sap_result)
         ELSE /\ erp' = Append(erp, reqs[r].tid)
              /\ session_rollback
              /\ reqs' = [reqs EXCEPT ![r] =
                   [reqs[r] EXCEPT !.pc = "commit",
                                   !.sap_calls = @ + 1,
                                   !.transfer = PostedTransfer(reqs[r].transfer, sap_result)]]

\* db.session.commit() and the success response (routes.py 406-413), or the
\* except branch when the commit raises (routes.py 415-418).
ApproveCommitted(r) ==
  /\ session_commit(reqs[r].tid, reqs[r].transfer, ApproveDirty, reqs[r].qc_status)
  /\ reqs' = [reqs EXCEPT ![r] =
       Response("approve", reqs[r].user, reqs[r].tid, reqs[r].qc_notes, TRUE, "", 200,
                reqs[r].transfer.sap_document_number)]

RefreshFailed == "OperationalError: lost connection during query"

CommitFailed(r) ==
  /\ session_rollback
  /\ reqs' = [reqs EXCEPT ![r] =
       Response(reqs[r].op, reqs[r].user, reqs[r].tid, reqs[r].qc_notes, FALSE, "commit failed", 500, NULL)]

\* The commit went through and the read of transfer.sap_document_number for
\* the response (routes.py 409-413), a refresh of the object the commit
\* expired, raised: the except branch answers (routes.py 415-418).
ApproveAnswerRaised(r) ==
  /\ session_commit(reqs[r].tid, reqs[r].transfer, ApproveDirty, reqs[r].qc_status)
  /\ reqs' = [reqs EXCEPT ![r] =
       Response("approve", reqs[r].user, reqs[r].tid, reqs[r].qc_notes, FALSE,
                RefreshFailed, 500, NULL)]

QcApproveCommit(r) ==
  /\ reqs[r].pc = "commit"
  /\ reqs[r].op = "approve"
  /\ erp' = erp
  /\ \E commit_ok \in BOOLEAN, answer_ok \in BOOLEAN :
       IF commit_ok /\ reqs[r].tid \in DOMAIN transfers
         THEN IF answer_ok THEN ApproveCommitted(r) ELSE ApproveAnswerRaised(r)
         ELSE CommitFailed(r)

\* ------------------------------------------------------------- qc-reject
RejectDirty == {"status", "qc_approver_id", "qc_approved_at", "qc_notes"}

\* The rejection without recording who decided and when.
RejectedTransfer_NoApprover(transfer, u, qc_notes) ==
  [transfer EXCEPT !.status = "rejected", !.qc_notes = qc_notes]

\* routes.py 440-443
RejectedTransfer(transfer, u, qc_notes) ==
  [transfer EXCEPT !.status = "rejected",
                   !.qc_approver_id = u,
                   !.qc_approved_at = UtcNow,
                   !.qc_notes = qc_notes]

\* routes.py 430
RejectGuard(transfer) == transfer.status = "submitted"

\* The notes check without strip().
NotesMissing_NoStrip(qc_notes) == qc_notes = ""

\* routes.py 436
NotesMissing(qc_notes) == strip(qc_notes) = ""

\* has_permission, get_or_404, the status guard, the notes check and the
\* rejection in the session (routes.py 422-447)
QcRejectBegin(r, u, tid, qc_notes) ==
  /\ Free(r)
  /\ UNCHANGED <<transfers, items, serials, next_id, erp>>
  /\ IF QcPermissionRequired(u)
       THEN reqs' = [reqs EXCEPT ![r] =
              Response("reject", u, tid, qc_notes, FALSE, "QC permissions required", 403, NULL)]
     ELSE IF tid \notin DOMAIN transfers
       THEN reqs' = [reqs EXCEPT ![r] =
              Response("reject", u, tid, qc_notes, FALSE, "404 Not Found", 500, NULL)]
     ELSE IF ~RejectGuard(transfers[tid])
       THEN reqs' = [reqs EXCEPT ![r] =
              Response("reject", u, tid, qc_notes, FALSE,
                       "Only submitted transfers can be rejected", 400, NULL)]
     ELSE IF NotesMissing(qc_notes)
       THEN reqs' = [reqs EXCEPT ![r] =
              Response("reject", u, tid, qc_notes, FALSE,
                       "QC notes are required for rejection", 400, NULL)]
     ELSE reqs' = [reqs EXCEPT ![r] =
              [pc |-> "commit", op |-> "reject", user |-> u, tid |-> tid,
               qc_notes |-> qc_notes,
               transfer |-> RejectedTransfer(transfers[tid], u, qc_notes),
               qc_status |-> [k \in ItemsOf(tid) |-> "rejected"]]]

RejectCommitted(r) ==
  /\ session_commit(reqs[r].tid, reqs[r].transfer, RejectDirty, reqs[r].qc_status)
  /\ reqs' = [reqs EXCEPT ![r] = Response("reject", reqs[r].user, reqs[r].tid, reqs[r].qc_notes, TRUE, "", 200, NULL)]

\* db.session.commit() and the response (routes.py 449-460)
QcRejectCommit(r) ==
  /\ reqs[r].pc = "commit"
  /\ reqs[r].op = "reject"
  /\ erp' = erp
  /\ \E commit_ok \in BOOLEAN :
       IF commit_ok /\ reqs[r].tid \in DOMAIN transfers
         THEN RejectCommitted(r)
         ELSE CommitFailed(r)

\* ---------------------------------------------------------------- create
Creators == {"u2", "u3"}
TransferNumbers == {NULL, "", "ST-TEST-1"}
FromWarehouses == {NULL, "", "WH001"}
ToWarehouses == {NULL, "", "WH001", "WH002"}
Times == {"20250823-101500"}

\* The required-fields check left out: no field counts as missing.
Missing_Never(v) == FALSE

\* all([...]) of routes.py 477: a form field not sent is None, one sent
\* empty is ''; both are falsy
Missing(v) == v \in {NULL, ""}

\* routes.py 489
GeneratedNumber(now) == "ST-" \o now

NumberExists(transfer_number) ==
  \E t \in DOMAIN transfers : transfers[t].transfer_number = transfer_number

\* routes.py 492-500 with the column defaults of models.py 88-101
NewTransfer(transfer_number, from_warehouse, to_warehouse, u) ==
  [transfer_number |-> transfer_number,
   sap_document_number |-> NULL,
   status |-> "draft",
   user_id |-> u,
   qc_approver_id |-> NULL,
   qc_approved_at |-> NULL,
   qc_notes |-> NULL,
   from_warehouse |-> from_warehouse,
   to_warehouse |-> to_warehouse]

\* The permission check, the input checks, the number lookup and
\* db.session.add (routes.py 465-502)
CreateBegin(r, u, from_warehouse, to_warehouse, transfer_number, now) ==
  /\ Free(r)
  /\ UNCHANGED <<transfers, items, serials, next_id, erp>>
  /\ IF ~has_permission(u, "serial_transfer")
       THEN reqs' = [reqs EXCEPT ![r] =
              Response("create", u, 0, NULL, FALSE, "Serial transfer permissions required",
                       403, NULL)]
     ELSE IF Missing(from_warehouse) \/ Missing(to_warehouse) \/ Missing(transfer_number)
       THEN reqs' = [reqs EXCEPT ![r] =
              Response("create", u, 0, NULL, FALSE, "All required fields must be provided",
                       400, NULL)]
     ELSE IF from_warehouse = to_warehouse
       THEN reqs' = [reqs EXCEPT ![r] =
              Response("create", u, 0, NULL, FALSE, "From and To warehouses must be different",
                       400, NULL)]
     ELSE reqs' = [reqs EXCEPT ![r] =
              [pc |-> "commit", op |-> "create", user |-> u, tid |-> 0,
               qc_notes |-> NULL,
               transfer |-> NewTransfer(IF NumberExists(transfer_number)
                                          THEN GeneratedNumber(now)
                                          ELSE transfer_number,
                                        from_warehouse, to_warehouse, u)]]

\* The INSERT: the UNIQUE index on transfer_number refuses a second row
\* with the same number (models.py 89).
CreateCommitted(r) ==
  /\ transfers' = transfers @@ (next_id :> reqs[r].transfer)
  /\ next_id' = next_id + 1
  /\ UNCHANGED <<items, serials>>
  /\ reqs' = [reqs EXCEPT ![r] =
       Response("create", reqs[r].user, next_id, NULL, TRUE, "", 200, reqs[r].transfer.transfer_number)]

\* The table without its UNIQUE index.
UniqueViolation_NoIndex(transfer) == FALSE

\* transfer_number is unique=True (models.py 89), UNIQUE in the DDL
\* (mysql_migration_complete.py 108): the INSERT of a number already stored
\* raises IntegrityError.
UniqueViolation(transfer) == NumberExists(transfer.transfer_number)

DuplicateEntry == "IntegrityError: Duplicate entry for key 'transfer_number'"

\* The INSERT refused by the UNIQUE index: the except branch answers with
\* the text of the IntegrityError (routes.py 513-516).
CreateRefused(r) ==
  /\ session_rollback
  /\ reqs' = [reqs EXCEPT ![r] =
       Response("create", reqs[r].user, 0, NULL, FALSE, DuplicateEntry, 500, NULL)]

\* The INSERT is committed and the read of current_user.username or
\* transfer.id for the log line and the response (routes.py 506-512), a
\* refresh of objects the commit expired, raised: the except branch answers
\* (routes.py 514-516).
CreateAnswerRaised(r) ==
  /\ transfers' = transfers @@ (next_id :> reqs[r].transfer)
  /\ next_id' = next_id + 1
  /\ UNCHANGED <<items, serials>>
  /\ reqs' = [reqs EXCEPT ![r] =
       Response("create", reqs[r].user, 0, NULL, FALSE, RefreshFailed, 500, NULL)]

\* db.session.commit() and the response (routes.py 503-516)
CreateCommit(r) ==
  /\ reqs[r].pc = "commit"
  /\ reqs[r].op = "create"
  /\ erp' = erp
  /\ \E commit_ok \in BOOLEAN, answer_ok \in BOOLEAN :
       IF ~commit_ok THEN CommitFailed(r)
       ELSE IF UniqueViolation(reqs[r].transfer) THEN CreateRefused(r)
       ELSE IF answer_ok THEN CreateCommitted(r)
       ELSE CreateAnswerRaised(r)

\* ---------------------------------------------------------------- delete
\* The access check without the creator and role test: anyone may delete.
DeleteDenied_Nobody(transfer, u) == FALSE

\* routes.py 526
DeleteDenied(transfer, u) ==
  transfer.user_id # u /\ users[u].role \notin {"admin", "manager"}

DeleteGuard(transfer) == transfer.status = "draft"

\* The handler with its two guards in the other order: the status is looked
\* at before the actor.
DeleteBegin_StatusFirst(r, u, tid) ==
  /\ Free(r)
  /\ UNCHANGED <<transfers, items, serials, next_id, erp>>
  /\ IF tid \notin DOMAIN transfers
       THEN reqs' = [reqs EXCEPT ![r] =
              Response("delete", u, tid, NULL, FALSE, "404 Not Found", 500, NULL)]
     ELSE IF ~DeleteGuard(transfers[tid])
       THEN reqs' = [reqs EXCEPT ![r] =
              Response("delete", u, tid, NULL, FALSE,
                       "Only draft transfers can be deleted", 400, NULL)]
     ELSE IF DeleteDenied(transfers[tid], u)
       THEN reqs' = [reqs EXCEPT ![r] =
              Response("delete", u, tid, NULL, FALSE, "Access denied", 403, NULL)]
     ELSE reqs' = [reqs EXCEPT ![r] =
              [pc |-> "commit", op |-> "delete", user |-> u, tid |-> tid,
               qc_notes |-> NULL]]

\* get_or_404, the access check, the status guard and db.session.delete
\* (routes.py 520-533)
DeleteBegin(r, u, tid) ==
  /\ Free(r)
  /\ UNCHANGED <<transfers, items, serials, next_id, erp>>
  /\ IF tid \notin DOMAIN transfers
       THEN reqs' = [reqs EXCEPT ![r] =
              Response("delete", u, tid, NULL, FALSE, "404 Not Found", 500, NULL)]
     ELSE IF DeleteDenied(transfers[tid], u)
       THEN reqs' = [reqs EXCEPT ![r] =
              Response("delete", u, tid, NULL, FALSE, "Access denied", 403, NULL)]
     ELSE IF ~DeleteGuard(transfers[tid])
       THEN reqs' = [reqs EXCEPT ![r] =
              Response("delete", u, tid, NULL, FALSE,
                       "Only draft transfers can be deleted", 400, NULL)]
     ELSE reqs' = [reqs EXCEPT ![r] =
              [pc |-> "commit", op |-> "delete", user |-> u, tid |-> tid,
               qc_notes |-> NULL]]

\* The DELETE of the row with its lines and their serials: cascade
\* 'all, delete-orphan' (models.py 106, 125)
DeleteCommitted(r) ==
  /\ transfers' = [t \in DOMAIN transfers \ {reqs[r].tid} |-> transfers[t]]
  /\ items' = [k \in DOMAIN items \ ItemsOf(reqs[r].tid) |-> items[k]]
  /\ serials' = [k \in DOMAIN serials \ ItemsOf(reqs[r].tid) |-> serials[k]]
  /\ next_id' = next_id
  /\ reqs' = [reqs EXCEPT ![r] = Response("delete", reqs[r].user, reqs[r].tid, NULL, TRUE, "", 200, NULL)]

\* db.session.commit() and the response (routes.py 534-545)
DeleteCommit(r) ==
  /\ reqs[r].pc = "commit"
  /\ reqs[r].op = "delete"
  /\ erp' = erp
  /\ \E commit_ok \in BOOLEAN :
       IF commit_ok /\ reqs[r].tid \in DOMAIN transfers
         THEN DeleteCommitted(r)
         ELSE CommitFailed(r)

\* ------------------------------------------- editing and submitting a draft
SerialStrings == {"SN1", "SN2"}

\* A new line of a draft, qc_status 'pending' (models.py 120)
AddItem(tid, quantity) ==
  /\ tid \in DOMAIN transfers
  /\ transfers[tid].status = "draft"
  /\ LET k == <<tid, Cardinality(ItemsOf(tid)) + 1>>
     IN  /\ items' = items @@ (k :> [quantity |-> quantity, qc_status |-> "pending"])
         /\ serials' = serials @@ (k :> << >>)
  /\ UNCHANGED <<transfers, next_id, erp, reqs>>

\* The table with the UNIQUE (transfer_item_id, serial_number) constraint
\* that models.py 143-145 leaves commented out.
AddSerial_UniquePerLine(k, serial_number) ==
  /\ k \in DOMAIN items
  /\ transfers[k[1]].status = "draft"
  /\ \A i \in 1..Len(serials[k]) : serials[k][i].serial_number # serial_number
  /\ serials' = [serials EXCEPT ![k] =
                   Append(@, [serial_number |-> serial_number, is_validated |-> FALSE])]
  /\ UNCHANGED <<transfers, items, next_id, erp, reqs>>

\* A serial attached to a line, not yet validated (models.py 136); nothing
\* keeps the same string from being attached twice (models.py 143-145).
AddSerial(k, serial_number) ==
  /\ k \in DOMAIN items
  /\ transfers[k[1]].status = "draft"
  /\ serials' = [serials EXCEPT ![k] =
                   Append(@, [serial_number |-> serial_number, is_validated |-> FALSE])]
  /\ UNCHANGED <<transfers, items, next_id, erp, reqs>>

ValidateSerial(k, i) ==
  /\ k \in DOMAIN items
  /\ transfers[k[1]].status = "draft"
  /\ i \in 1..Len(serials[k])
  /\ ~serials[k][i].is_validated
  /\ serials' = [serials EXCEPT ![k][i].is_validated = TRUE]
  /\ UNCHANGED <<transfers, items, next_id, erp, reqs>>

ValidatedCount(k) ==
  Cardinality({i \in 1..Len(serials[k]) : serials[k][i].is_validated})

\* The guard counting the entries of a line without looking at their flags.
LineComplete_CountOnly(k) ==
  /\ Len(serials[k]) >= 1
  /\ Len(serials[k]) = items[k].quantity

LineComplete(k) ==
  /\ Len(serials[k]) >= 1
  /\ \A i \in 1..Len(serials[k]) : serials[k][i].is_validated
  /\ ValidatedCount(k) = items[k].quantity

\* The submission guard over the lines of a transfer.
SubmitGuard(tid) == \A k \in ItemsOf(tid) : LineComplete(k)

Submit(tid) ==
  /\ tid \in DOMAIN transfers
  /\ transfers[tid].status = "draft"
  /\ SubmitGuard(tid)
  /\ transfers' = [transfers EXCEPT ![tid].status = "submitted"]
  /\ UNCHANGED <<items, serials, next_id, erp, reqs>>

LineName(k) == "line " \o ToString(k[2])

\* The first line of a transfer that does not pass the guard.
OffendingLine(tid) ==
  CHOOSE k \in ItemsOf(tid) :
    /\ ~LineComplete(k)
    /\ \A j \in ItemsOf(tid) : ~LineComplete(j) => k[2] <= j[2]

\* The submit request with its answer: success, or SerialValidationFailed
\* naming the line that blocks the submission.
SubmitRequest(r, u, tid) ==
  /\ Free(r)
  /\ tid \in DOMAIN transfers
  /\ transfers[tid].status = "draft"
  /\ UNCHANGED <<items, serials, next_id, erp>>
  /\ IF SubmitGuard(tid)
       THEN /\ transfers' = [transfers EXCEPT ![tid].status = "submitted"]
            /\ reqs' = [reqs EXCEPT ![r] =
                 Response("submit", u, tid, NULL, TRUE, "", 200, NULL)]
       ELSE /\ transfers' = transfers
            /\ reqs' = [reqs EXCEPT ![r] =
                 Response("submit", u, tid, NULL, FALSE, "SerialValidationFailed", 400,
                          LineName(OffendingLine(tid)))]

\* ------------------------------------------------------ the whole system
Next ==
  \/ \E r \in Reqs, u \in Creators, f \in FromWarehouses, t \in ToWarehouses,
        n \in TransferNumbers, now \in Times :
        next_id <= MaxDocs /\ CreateBegin(r, u, f, t, n, now) /\ UNCHANGED mig
  \/ \E r \in Reqs : CreateCommit(r) /\ next_id' <= MaxDocs + 1 /\ UNCHANGED mig
  \/ \E tid \in DocIds, q \in 1..MaxQty :
        Cardinality(ItemsOf(tid)) < MaxItems /\ AddItem(tid, q) /\ UNCHANGED mig
  \/ \E k \in DOMAIN items, sn \in SerialStrings :
        Len(serials[k]) < MaxSerials /\ AddSerial(k, sn) /\ UNCHANGED mig
  \/ \E k \in DOMAIN items, i \in 1..MaxSerials : ValidateSerial(k, i) /\ UNCHANGED mig
  \/ \E tid \in DocIds : Submit(tid) /\ UNCHANGED mig
  \/ \E r \in Reqs, u \in UserIds, tid \in DocIds, n \in ApproveNotes :
        QcApproveBegin(r, u, tid, n) /\ UNCHANGED mig
  \/ \E r \in Reqs : QcApprovePost(r) /\ UNCHANGED mig
  \/ \E r \in Reqs : QcApproveCommit(r) /\ UNCHANGED mig
  \/ \E r \in Reqs, u \in UserIds, tid \in DocIds, n \in NoteInputs :
        QcRejectBegin(r, u, tid, n) /\ UNCHANGED mig
  \/ \E r \in Reqs : QcRejectCommit(r) /\ UNCHANGED mig
  \/ \E r \in Reqs, u \in UserIds, tid \in DocIds : DeleteBegin(r, u, tid) /\ UNCHANGED mig
  \/ \E r \in Reqs : DeleteCommit(r) /\ UNCHANGED mig

Spec == Init /\ [][Next]_vars

\* A handler that has started runs to its return whether or not its client
\* is still there, and the gateway call returns, fails or times out.
FairSpec ==
  Spec /\ \A r \in Reqs : /\ WF_vars(QcApprovePost(r) /\ UNCHANGED mig)
                           /\ WF_vars(QcApproveCommit(r) /\ UNCHANGED mig)

\* ------------------------------------------- several transfers side by side
\* The handlers over up to MaxCreateDocs transfers, with create requests
\* falling into the same or into different seconds; the first transfer goes
\* through QC while the others are created and deleted next to it.
MaxCreateDocs == 3

CreateDocIds == 1..MaxCreateDocs
CreateTimes == {"20250823-101500", "20250823-101501"}
CreateNumbers == {"ST-TEST-1"}
QcUsers == {"u1"}
QcDocIds == {1}

CreateNext ==
  \/ \E r \in Reqs, u \in Creators, now \in CreateTimes, n \in CreateNumbers :
        next_id <= MaxCreateDocs /\ CreateBegin(r, u, "WH001", "WH002", n, now) /\ UNCHANGED mig
  \/ \E r \in Reqs : CreateCommit(r) /\ next_id' <= MaxCreateDocs + 1 /\ UNCHANGED mig
  \/ \E tid \in QcDocIds : Submit(tid) /\ UNCHANGED mig
  \/ \E r \in Reqs, u \in QcUsers, tid \in QcDocIds, n \in ApproveNotes :
        QcApproveBegin(r, u, tid, n) /\ UNCHANGED mig
  \/ \E r \in Reqs : QcApprovePost(r) /\ UNCHANGED mig
  \/ \E r \in Reqs : QcApproveCommit(r) /\ UNCHANGED mig
  \/ \E r \in Reqs, u \in QcUsers, tid \in QcDocIds, n \in ApproveNotes :
        QcRejectBegin(r, u, tid, n) /\ UNCHANGED mig
  \/ \E r \in Reqs : QcRejectCommit(r) /\ UNCHANGED mig
  \/ \E r \in Reqs, u \in Creators, tid \in CreateDocIds : DeleteBegin(r, u, tid) /\ UNCHANGED mig
  \/ \E r \in Reqs : DeleteCommit(r) /\ UNCHANGED mig

CreateSpec == Init /\ [][CreateNext]_vars

\* ------------------------------------------------ a draft and its serials
\* One transfer edited and submitted by its creator, with lines of up to
\* MaxDraftQty expected serials.
MaxDraftItems == 2
MaxDraftQty == 3
MaxDraftSerials == 2

DraftNext ==
  \/ \E r \in Reqs, now \in Times :
        next_id <= MaxDocs /\ CreateBegin(r, "u2", "WH001", "WH002", "ST-TEST-1", now) /\ UNCHANGED mig
  \/ \E r \in Reqs : CreateCommit(r) /\ next_id' <= MaxDocs + 1 /\ UNCHANGED mig
  \/ \E tid \in DocIds, q \in 1..MaxDraftQty :
        Cardinality(ItemsOf(tid)) < MaxDraftItems /\ AddItem(tid, q) /\ UNCHANGED mig
  \/ \E k \in DOMAIN items, sn \in SerialStrings :
        Len(serials[k]) < MaxDraftSerials /\ AddSerial(k, sn) /\ UNCHANGED mig
  \/ \E k \in DOMAIN items, i \in 1..MaxDraftSerials : ValidateSerial(k, i) /\ UNCHANGED mig
  \/ \E r \in Reqs, tid \in DocIds : SubmitRequest(r, "u2", tid) /\ UNCHANGED mig

DraftSpec == Init /\ [][DraftNext]_vars

\* ------------------------------------------------ who may decide on QC
\* One transfer, created and submitted, and approve and reject requests by
\* every row of the users table.
PermCreators == {"u2", "u5", "u6", "u8"}

PermNext ==
  \/ \E r \in Reqs, u \in PermCreators, now \in Times :
        next_id <= MaxDocs /\ CreateBegin(r, u, "WH001", "WH002", "ST-TEST-1", now) /\ UNCHANGED mig
  \/ \E r \in Reqs : CreateCommit(r) /\ next_id' <= MaxDocs + 1 /\ UNCHANGED mig
  \/ \E tid \in DocIds : Submit(tid) /\ UNCHANGED mig
  \/ \E r \in Reqs, u \in DOMAIN users, tid \in DocIds, n \in ApproveNotes :
        QcApproveBegin(r, u, tid, n) /\ UNCHANGED mig
  \/ \E r \in Reqs : QcApprovePost(r) /\ UNCHANGED mig
  \/ \E r \in Reqs : QcApproveCommit(r) /\ UNCHANGED mig
  \/ \E r \in Reqs, u \in DOMAIN users, tid \in DocIds, n \in ApproveNotes :
        QcRejectBegin(r, u, tid, n) /\ UNCHANGED mig
  \/ \E r \in Reqs : QcRejectCommit(r) /\ UNCHANGED mig

PermSpec == Init /\ [][PermNext]_vars

\* ------------------------------------------------- the cleanup migration
\* migration_cleanup.py 38-55
tables_to_remove ==
  <<"grpo_documents", "grpo_items", "pick_lists", "pick_list_items",
    "pick_list_lines", "pick_list_bin_allocations", "sales_orders",
    "sales_order_lines", "inventory_counts", "inventory_count_items",
    "barcode_labels", "bin_locations", "bin_items", "bin_scanning_logs",
    "qr_code_labels", "document_number_series">>

\* Tables a database may hold next to those of the application: some of the
\* removed modules, and one that belongs to neither list.
OtherTables == {"grpo_documents", "pick_lists", "bin_items", "document_number_series",
                "audit_logs"}

\* The application's tables of a database, with or without the batch
\* transfer module.
AppTables ==
  {keep_tables, keep_tables \ {"inventory_transfers", "inventory_transfer_items"}}

\* db.engine.connect() and inspector.get_table_names() (migration_cleanup.py
\* 17-21), or the connection error of lines 102-104
CleanupConnect ==
  /\ mig.pc = "idle"
  /\ \E connected \in BOOLEAN :
       IF connected
         THEN mig' = [pc |-> "loop", tables |-> mig.tables,
                      existing_tables |-> mig.tables, i |-> 1, returned |-> NULL,
                      permissions |-> mig.permissions]
         ELSE mig' = [pc |-> "done", tables |-> mig.tables,
                      existing_tables |-> mig.tables, i |-> 1, returned |-> "False",
                      permissions |-> mig.permissions]
  /\ UNCHANGED <<transfers, items, serials, next_id, erp, reqs>>

\* One round of the loop of migration_cleanup.py 69-76: the table is dropped
\* if it was found at the start; a DROP that raises is logged and skipped.
CleanupDrop ==
  /\ mig.pc = "loop"
  /\ mig.i <= Len(tables_to_remove)
  /\ LET table_name == tables_to_remove[mig.i]
     IN  IF table_name \in mig.existing_tables
           THEN \E dropped \in BOOLEAN :
                  mig' = [mig EXCEPT !.i = @ + 1,
                                     !.tables = IF dropped THEN @ \ {table_name} ELSE @]
           ELSE mig' = [mig EXCEPT !.i = @ + 1]
  /\ UNCHANGED <<transfers, items, serials, next_id, erp, reqs>>

\* trans.commit() and return True (migration_cleanup.py 85-94), or the except
\* branch of lines 96-100: the rollback brings the dropped tables back where
\* DDL is transactional and leaves them dropped where it is not.
CleanupCommit ==
  /\ mig.pc = "loop"
  /\ mig.i > Len(tables_to_remove)
  /\ \E committed \in BOOLEAN, restored \in BOOLEAN :
       IF committed
         THEN mig' = [mig EXCEPT !.pc = "done", !.returned = "True"]
         ELSE mig' = [mig EXCEPT !.pc = "done", !.returned = "False",
                                 !.tables = IF restored THEN mig.existing_tables ELSE @]
  /\ UNCHANGED <<transfers, items, serials, next_id, erp, reqs>>

\* The permissions column of the users table before the script runs.
StoredPermissions == [u \in DOMAIN users |-> users[u].permissions]

\* migration_cleanup.py 114-119
available_permissions ==
  [s \in {"dashboard", "inventory_transfer", "serial_transfer", "user_management"} |->
     s = "dashboard"]

\* New permissions that keep what the user had stored and add the role's.
new_perms_KeepsCurrent(role, current_perms) ==
  [s \in DOMAIN available_permissions \cup DOMAIN current_perms |->
     IF s \in DOMAIN current_perms THEN current_perms[s]
     ELSE available_permissions[s]]

\* migration_cleanup.py 129-146: current_perms is read and not used
new_perms(role, current_perms) ==
  IF role = "admin" THEN [s \in DOMAIN available_permissions |-> TRUE]
  ELSE IF role = "manager"
    THEN [s \in DOMAIN available_permissions |->
            IF s \in {"inventory_transfer", "serial_transfer", "user_management"}
              THEN TRUE ELSE available_permissions[s]]
  ELSE IF role = "user"
    THEN [s \in DOMAIN available_permissions |->
            IF s \in {"inventory_transfer", "serial_transfer"}
              THEN TRUE ELSE available_permissions[s]]
  ELSE available_permissions

\* The permissions user u has according to the stored column: models.py
\* 34-42 read from the column as the script finds it.
current_permissions(u) ==
  LET p == mig.permissions[u]
  IN  IF p.kind = "null" THEN get_default_permissions(users[u].role)
      ELSE IF p.kind = "json" THEN p.dict
      ELSE << >>

\* update_user_permissions (migration_cleanup.py 106-160), called by the
\* script after cleanup_database returned True (lines 172-174): set_permissions
\* for every user, then one commit; when the commit raises the rollback
\* leaves the column as it was.
UpdateUserPermissions ==
  /\ mig.pc = "done"
  /\ mig.returned = "True"
  /\ \E committed \in BOOLEAN :
       mig' = [mig EXCEPT
                 !.pc = "updated",
                 !.permissions =
                    IF committed
                      THEN [u \in DOMAIN users |->
                              [kind |-> "json",
                               dict |-> new_perms(users[u].role, current_permissions(u))]]
                      ELSE @]
  /\ UNCHANGED <<transfers, items, serials, next_id, erp, reqs>>

CleanupInit ==
  /\ transfers = << >>
  /\ items = << >>
  /\ serials = << >>
  /\ next_id = 1
  /\ erp = << >>
  /\ reqs = [r \in Reqs |-> Idle]
  /\ \E app \in AppTables, others \in SUBSET OtherTables :
       mig = [pc |-> "idle", tables |-> app \cup others,
              permissions |-> StoredPermissions]

CleanupNext == CleanupConnect \/ CleanupDrop \/ CleanupCommit \/ UpdateUserPermissions

CleanupSpec == CleanupInit /\ [][CleanupNext]_vars

\* --------------------------------------------------- the MySQL migration
\* The tables of create_tables in the order of its dictionary
\* (mysql_migration_complete.py 50-174)
migration_tables ==
  <<"branches", "users", "serial_number_transfers", "serial_number_transfer_items",
    "serial_number_transfer_serials">>

\* The rows of insert_default_data in the order of its statements
\* (mysql_migration_complete.py 188-252)
default_data == <<"branch 01", "admin", "qc_user", "manager">>

\* self.connect(config) (mysql_migration_complete.py 36-45, 282-283)
MigrationConnect ==
  /\ mig.pc = "idle"
  /\ \E connected \in BOOLEAN :
       mig' = [mig EXCEPT !.pc = IF connected THEN "tables" ELSE "returned",
                          !.connected = connected,
                          !.returned = IF connected THEN NULL ELSE "False"]
  /\ UNCHANGED <<transfers, items, serials, next_id, erp, reqs>>

\* One round of the loop of create_tables (mysql_migration_complete.py
\* 176-186): CREATE TABLE IF NOT EXISTS takes effect at once, MySQL commits
\* DDL implicitly; a statement that raises ends create_tables with False and
\* run_migration goes to its finally block.
MigrationCreateTable ==
  /\ mig.pc = "tables"
  /\ \E created \in BOOLEAN :
       IF created
         THEN mig' = [mig EXCEPT
                        !.tables = @ \cup {migration_tables[mig.i]},
                        !.created = @ \cup {migration_tables[mig.i]},
                        !.i = IF mig.i = Len(migration_tables) THEN 1 ELSE @ + 1,
                        !.pc = IF mig.i = Len(migration_tables) THEN "data" ELSE @]
         ELSE mig' = [mig EXCEPT !.pc = "closing", !.result = "False"]
  /\ UNCHANGED <<transfers, items, serials, next_id, erp, reqs>>

\* One statement of insert_default_data (mysql_migration_complete.py
\* 188-252): the row is inserted in the open transaction, or the statement
\* raises and the exception is logged as a warning; the function returns
\* True in either case.
MigrationInsertDefault ==
  /\ mig.pc = "data"
  /\ \E inserted \in BOOLEAN :
       mig' = [mig EXCEPT
                 !.session = IF inserted THEN @ \cup {default_data[mig.i]} ELSE @,
                 !.i = @ + 1,
                 !.pc = IF mig.i = Len(default_data) THEN "commit" ELSE @]
  /\ UNCHANGED <<transfers, items, serials, next_id, erp, reqs>>

\* commit_changes (mysql_migration_complete.py 254-263, 295-296)
MigrationCommit ==
  /\ mig.pc = "commit"
  /\ \E committed \in BOOLEAN :
       IF committed
         THEN mig' = [mig EXCEPT !.rows = @ \cup mig.session,
                                 !.commits = @ + 1,
                                 !.pc = "closing", !.result = "True"]
         ELSE mig' = [mig EXCEPT !.session = {},
                                 !.pc = "closing", !.result = "False"]
  /\ UNCHANGED <<transfers, items, serials, next_id, erp, reqs>>

\* The finally block: close_connection, then the return
\* (mysql_migration_complete.py 265-271, 312-318)
MigrationClose ==
  /\ mig.pc = "closing"
  /\ mig' = [mig EXCEPT !.closes = @ + 1, !.pc = "returned", !.returned = mig.result]
  /\ UNCHANGED <<transfers, items, serials, next_id, erp, reqs>>

\* A database with any of the tables already there, and no row of the
\* default data.
MigrationInit ==
  /\ transfers = << >>
  /\ items = << >>
  /\ serials = << >>
  /\ next_id = 1
  /\ erp = << >>
  /\ reqs = [r \in Reqs |-> Idle]
  /\ \E existing \in SUBSET {migration_tables[k] : k \in 1..Len(migration_tables)} :
       mig = [pc |-> "idle", tables |-> existing, created |-> {}, i |-> 1,
              session |-> {}, rows |-> {}, commits |-> 0, closes |-> 0,
              connected |-> FALSE, result |-> NULL, returned |-> NULL]

MigrationNext ==
  \/ MigrationConnect
  \/ MigrationCreateTable
  \/ MigrationInsertDefault
  \/ MigrationCommit
  \/ MigrationClose

MigrationSpec == MigrationInit /\ [][MigrationNext]_vars

\* ===================================================== properties checked
Posted(t) == transfers[t].status = "posted"

ErpAcknowledged(t) == \E i \in 1..Len(erp) : erp[i] = t

ErpTransfersFor(t) == {i \in 1..Len(erp) : erp[i] = t}

ApproveInFlight(t) ==
  \E r \in Reqs : reqs[r].pc \in {"sap", "commit"} /\ reqs[r].op = "approve"
                  /\ reqs[r].tid = t

\* Slot r takes up a new request in this step.
Begins(r) == Free(r) /\ reqs'[r] # reqs[r]

TablesUnchanged == UNCHANGED <<transfers, items, serials>>

Done(r, op) == reqs[r].pc = "done" /\ reqs[r].op = op

\* C1: in every committed state a transfer is 'posted' if and only if its
\* sap_document_number is set.
C1_PostedIffDocumentNumber ==
  \A t \in DOMAIN transfers :
    Posted(t) <=> transfers[t].sap_document_number # NULL

\* C2: whenever no approval of a transfer is under way, the transfer is
\* 'posted' if and only if the ERP has created a stock transfer for it, also
\* after an exception raised once the ERP call had succeeded.
C2_PostedIffErpAcknowledged ==
  \A t \in DOMAIN transfers :
    ~ApproveInFlight(t) => (Posted(t) <=> ErpAcknowledged(t))

\* C3: of two approve requests for the same transfer at most one reports
\* success; the other fails on the status guard.
C3_OnlyOneApproveSucceeds ==
  \A r1, r2 \in Reqs :
    (r1 # r2 /\ Done(r1, "approve") /\ Done(r2, "approve")
       /\ reqs[r1].tid = reqs[r2].tid /\ reqs[r1].success)
    => ~reqs[r2].success

\* C4: the ERP never holds more than one stock transfer created for one
\* local transfer, whatever the interleaving of approve requests and retries.
C4_AtMostOneErpTransferPerDocument ==
  \A t \in DocIds : Cardinality(ErpTransfersFor(t)) <= 1

C6_NeverCommittedQcApproved ==
  \A t \in DOMAIN transfers : transfers[t].status # "qc_approved"

C6_Witness ==
  \E r \in Reqs :
    /\ reqs[r].pc = "sap"
    /\ reqs[r].transfer.status = "qc_approved"
    /\ reqs[r].tid \in DOMAIN transfers
    /\ transfers[reqs[r].tid].status = "submitted"

RequiredStatus(op) == IF op = "delete" THEN "draft" ELSE "submitted"

PreconditionFailed(op) ==
  CASE op = "approve" -> "Only submitted transfers can be approved"
    [] op = "reject"  -> "Only submitted transfers can be rejected"
    [] op = "delete"  -> "Only draft transfers can be deleted"

Authorized(op, u, t) ==
  IF op = "delete" THEN ~DeleteDenied(transfers[t], u)
  ELSE has_permission(u, "qc_dashboard")

\* The request slot r takes up is an approve, reject or delete of an existing
\* transfer whose status is not the one the transition requires.
WrongStatusAttempt(r) ==
  /\ Begins(r)
  /\ reqs'[r].op \in {"approve", "reject", "delete"}
  /\ reqs'[r].tid \in DOMAIN transfers
  /\ transfers[reqs'[r].tid].status # RequiredStatus(reqs'[r].op)

RefusedOnStatus(r) ==
  /\ reqs'[r].pc = "done"
  /\ ~reqs'[r].success
  /\ reqs'[r].error = PreconditionFailed(reqs'[r].op)
  /\ TablesUnchanged

\* C7 as stated: every approve, reject or delete attempted on a transfer
\* whose status is not the required one fails naming the required status and
\* changes nothing.
C7_WrongStatusAlwaysNamed ==
  [][\A r \in Reqs : WrongStatusAttempt(r) => RefusedOnStatus(r)]_vars

\* C7, amended: every approve, reject or delete attempted by an actor who
\* passes the handler's permission check (QC permission; creator, admin or
\* manager for delete) on a transfer whose status is not the required one fails
\* naming the required status and changes nothing, each time it is made.
C7_WrongStatusRefused ==
  [][\A r \in Reqs :
       (WrongStatusAttempt(r)
          /\ Authorized(reqs'[r].op, reqs'[r].user, reqs'[r].tid))
       => RefusedOnStatus(r)]_vars

C7_Witness ==
  \E r1, r2 \in Reqs :
    /\ Done(r1, "delete") /\ reqs[r1].error = PreconditionFailed("delete")
    /\ Done(r2, "approve") /\ reqs[r2].error = PreconditionFailed("approve")
    /\ reqs[r1].tid \in DOMAIN transfers
    /\ transfers[reqs[r1].tid].status = "rejected"

\* C8: no step of a reject request reaches the gateway or changes the ERP,
\* and a reject that answers success has committed status 'rejected', every
\* line 'rejected', and the approver, the timestamp and the notes.
C8_RejectIsLocal ==
  [][\A r \in Reqs :
       (reqs'[r] # reqs[r] /\ reqs'[r].pc # "idle" /\ reqs'[r].op = "reject") =>
         /\ erp' = erp
         /\ reqs'[r].pc # "sap"
         /\ (reqs'[r].pc = "done" /\ reqs'[r].success) =>
              /\ transfers'[reqs'[r].tid].status = "rejected"
              /\ transfers'[reqs'[r].tid].qc_approver_id = reqs'[r].user
              /\ transfers'[reqs'[r].tid].qc_approved_at # NULL
              /\ transfers'[reqs'[r].tid].qc_notes = reqs'[r].qc_notes
              /\ \A k \in DOMAIN items' :
                   k[1] = reqs'[r].tid => items'[k].qc_status = "rejected"]_vars

C8_Witness ==
  \E r \in Reqs :
    /\ Done(r, "reject") /\ reqs[r].success
    /\ reqs[r].tid \in DOMAIN transfers
    /\ transfers[reqs[r].tid].status = "rejected"
    /\ ItemsOf(reqs[r].tid) # {}
    /\ \A k \in ItemsOf(reqs[r].tid) : items[k].qc_status = "rejected"
    /\ erp = << >>

\* C9: a reject request by a QC actor on a 'submitted' transfer whose notes
\* are empty or only whitespace fails with 'QC notes are required for
\* rejection' and leaves the transfer and its lines as they were.
C9_RejectNeedsNotes ==
  [][\A r \in Reqs :
       (/\ Begins(r)
        /\ reqs'[r].op = "reject"
        /\ reqs'[r].qc_notes \in {"", " "}
        /\ has_permission(reqs'[r].user, "qc_dashboard")
        /\ reqs'[r].tid \in DOMAIN transfers
        /\ transfers[reqs'[r].tid].status = "submitted")
       => /\ reqs'[r].pc = "done"
          /\ ~reqs'[r].success
          /\ reqs'[r].error = "QC notes are required for rejection"
          /\ TablesUnchanged
          /\ transfers'[reqs'[r].tid].status = "submitted"
          /\ transfers'[reqs'[r].tid].qc_approver_id = NULL]_vars

C9_Witness ==
  \E r \in Reqs :
    /\ Done(r, "reject")
    /\ reqs[r].qc_notes = " "
    /\ reqs[r].error = "QC notes are required for rejection"
    /\ reqs[r].tid \in DOMAIN transfers
    /\ transfers[reqs[r].tid].status = "submitted"
    /\ transfers[reqs[r].tid].qc_approver_id = NULL

\* C10: once a committed transfer is 'posted' or 'rejected', no request
\* changes its status or removes it.
C10_TerminalStatusesStay ==
  [][\A t \in DOMAIN transfers :
       transfers[t].status \in {"posted", "rejected"} =>
         /\ t \in DOMAIN transfers'
         /\ transfers'[t].status = transfers[t].status]_vars

QcDecided(t) == transfers[t].status \in {"qc_approved", "posted", "rejected"}

\* C11: in every committed state a transfer has both its QC approver and its
\* QC timestamp if and only if its status is 'qc_approved', 'posted' or
\* 'rejected'; a 'draft' or 'submitted' transfer, also one whose approval was
\* rolled back, has neither.
C11_ApproverAndTimeIffDecided ==
  \A t \in DOMAIN transfers :
    /\ (transfers[t].qc_approver_id # NULL /\ transfers[t].qc_approved_at # NULL)
         <=> QcDecided(t)
    /\ ~QcDecided(t) =>
         (transfers[t].qc_approver_id = NULL /\ transfers[t].qc_approved_at = NULL)

C11_Witness ==
  \E r1, r2 \in Reqs :
    /\ Done(r1, "approve") /\ reqs[r1].error = "SAP B1 posting failed: Unknown SAP error"
    /\ Done(r2, "approve") /\ reqs[r2].success
    /\ reqs[r1].tid = reqs[r2].tid
    /\ reqs[r2].tid \in DOMAIN transfers
    /\ transfers[reqs[r2].tid].status = "posted"
    /\ transfers[reqs[r2].tid].qc_approver_id = reqs[r2].user
    /\ transfers[reqs[r2].tid].qc_approved_at = UtcNow

\* Slot r answers success to a delete request in this step.
DeleteSucceeds(r) ==
  /\ reqs[r].pc = "commit" /\ reqs[r].op = "delete"
  /\ reqs'[r].pc = "done" /\ reqs'[r].success

\* C12: a delete request succeeds only when the committed status of the
\* transfer is 'draft', and then the transfer, all its lines and all their
\* serials are gone together; a delete attempted, by an actor allowed to
\* delete it, on a transfer in any other status fails with 'Only draft
\* transfers can be deleted' and removes nothing.
C12_DeleteOnlyDraft ==
  [][\A r \in Reqs :
       /\ DeleteSucceeds(r) =>
            /\ transfers[reqs[r].tid].status = "draft"
            /\ reqs[r].tid \notin DOMAIN transfers'
            /\ \A k \in DOMAIN items' \cup DOMAIN serials' : k[1] # reqs[r].tid
       /\ (/\ Begins(r)
           /\ reqs'[r].op = "delete"
           /\ reqs'[r].tid \in DOMAIN transfers
           /\ ~DeleteDenied(transfers[reqs'[r].tid], reqs'[r].user)
           /\ transfers[reqs'[r].tid].status # "draft")
          => /\ reqs'[r].pc = "done"
             /\ ~reqs'[r].success
             /\ reqs'[r].error = "Only draft transfers can be deleted"
             /\ TablesUnchanged]_vars

MayDelete(transfer, u) ==
  transfer.user_id = u \/ users[u].role \in {"admin", "manager"}

\* C13: a transfer is removed only by a delete request of its creator or of
\* an admin or manager; a delete request of any other actor fails with
\* 'Access denied' and nothing changes.
C13_DeleteOnlyByOwnerOrManager ==
  [][/\ \A t \in DOMAIN transfers \ DOMAIN transfers' :
          \E r \in Reqs : /\ DeleteSucceeds(r)
                          /\ reqs[r].tid = t
                          /\ MayDelete(transfers[t], reqs[r].user)
     /\ \A r \in Reqs :
          (/\ Begins(r)
           /\ reqs'[r].op = "delete"
           /\ reqs'[r].tid \in DOMAIN transfers
           /\ ~MayDelete(transfers[reqs'[r].tid], reqs'[r].user))
          => /\ reqs'[r].pc = "done"
             /\ ~reqs'[r].success
             /\ reqs'[r].error = "Access denied"
             /\ TablesUnchanged]_vars

C13_Witness ==
  \E r1, r2 \in Reqs :
    /\ Done(r1, "delete") /\ reqs[r1].user = "u3" /\ reqs[r1].error = "Access denied"
    /\ Done(r2, "delete") /\ reqs[r2].user = "u4" /\ reqs[r2].success
    /\ reqs[r1].tid = reqs[r2].tid
    /\ reqs[r2].tid \notin DOMAIN transfers

\* The fields a create request must give, all present and the two
\* warehouses different.
WellFormed(transfer) ==
  /\ transfer.from_warehouse \notin {NULL, ""}
  /\ transfer.to_warehouse \notin {NULL, ""}
  /\ transfer.transfer_number \notin {NULL, ""}
  /\ transfer.from_warehouse # transfer.to_warehouse

\* C14: a create request goes on to insert a transfer only with a source, a
\* destination and a transfer number given and source different from
\* destination; otherwise it is refused before anything is written and no
\* transfer is added. Hence every stored transfer has source different from
\* destination.
C14_CreateValidated ==
  /\ [](\A t \in DOMAIN transfers : WellFormed(transfers[t]))
  /\ [][\A r \in Reqs :
          (Begins(r) /\ reqs'[r].op = "create") =>
            /\ TablesUnchanged
            /\ next_id' = next_id
            /\ IF reqs'[r].pc = "commit"
                 THEN WellFormed(reqs'[r].transfer)
                 ELSE reqs'[r].pc = "done" /\ ~reqs'[r].success]_vars

C14_Witness ==
  \E r1, r2 \in Reqs :
    /\ Done(r1, "create") /\ reqs[r1].error = "From and To warehouses must be different"
    /\ Done(r2, "create") /\ reqs[r2].error = "All required fields must be provided"
    /\ reqs[r1].code = 400 /\ reqs[r2].code = 400
    /\ transfers = << >>
    /\ next_id = 1

GeneratedNumbers == {GeneratedNumber(now) : now \in CreateTimes}

\* A create request that found its transfer number taken and goes on with a
\* generated one.
CollidingCreate(r) ==
  /\ reqs[r].pc = "commit" /\ reqs[r].op = "create"
  /\ reqs[r].transfer.transfer_number \in GeneratedNumbers

\* C15: a create request with valid, different warehouses whose transfer
\* number is taken is never refused for its number: when its commit goes
\* through, a new 'draft' transfer exists under a number no other stored
\* transfer has, also when several such requests come in a row or at once.
C15_CollidingCreateNeverFails ==
  [][\A r \in Reqs :
       (CollidingCreate(r) /\ reqs'[r].pc = "done"
          /\ reqs'[r].error # "commit failed")
       => /\ reqs'[r].success
          /\ reqs'[r].tid \in DOMAIN transfers' \ DOMAIN transfers
          /\ transfers'[reqs'[r].tid].status = "draft"
          /\ \A t \in DOMAIN transfers :
               transfers[t].transfer_number
                 # transfers'[reqs'[r].tid].transfer_number]_vars

\* C16: in every committed state no two transfers have the same transfer
\* number, and no step changes the transfer number of a stored transfer.
C16_TransferNumbersUniqueAndFixed ==
  /\ [](\A t1, t2 \in DOMAIN transfers :
          transfers[t1].transfer_number = transfers[t2].transfer_number => t1 = t2)
  /\ [][\A t \in DOMAIN transfers \cap DOMAIN transfers' :
          transfers'[t].transfer_number = transfers[t].transfer_number]_vars

C16_Witness ==
  \E r \in Reqs :
    /\ Done(r, "create") /\ reqs[r].error = DuplicateEntry
    /\ 1 \in DOMAIN transfers
    /\ transfers[1].status = "posted"
    /\ transfers[1].transfer_number = "ST-TEST-1"
    /\ \E t \in DOMAIN transfers : transfers[t].transfer_number \in GeneratedNumbers

\* What the submission requires of line k, read off the stored rows.
LineSatisfied(k) ==
  /\ Len(serials[k]) >= 1
  /\ \A i \in 1..Len(serials[k]) : serials[k][i].is_validated
  /\ Cardinality({i \in 1..Len(serials[k]) : serials[k][i].is_validated})
       = items[k].quantity

\* C17: a transfer moves from 'draft' to 'submitted' only if every line has
\* at least one serial, all its serials validated, and as many validated
\* serials as its expected quantity; otherwise the submission fails with
\* SerialValidationFailed naming a line that does not satisfy this, and the
\* transfer stays 'draft'.
C17_SubmitNeedsValidatedSerials ==
  [][/\ \A t \in DOMAIN transfers \cap DOMAIN transfers' :
          (transfers[t].status = "draft" /\ transfers'[t].status = "submitted")
          => \A k \in ItemsOf(t) : LineSatisfied(k)
     /\ \A r \in Reqs :
          (/\ Begins(r)
           /\ reqs'[r].op = "submit"
           /\ \E k \in ItemsOf(reqs'[r].tid) : ~LineSatisfied(k))
          => /\ ~reqs'[r].success
             /\ reqs'[r].error = "SerialValidationFailed"
             /\ \E k \in ItemsOf(reqs'[r].tid) :
                  ~LineSatisfied(k) /\ reqs'[r].payload = LineName(k)
             /\ TablesUnchanged
             /\ transfers'[reqs'[r].tid].status = "draft"]_vars

C17_Witness ==
  \E r \in Reqs :
    /\ Done(r, "submit") /\ reqs[r].error = "SerialValidationFailed"
    /\ reqs[r].payload = "line 2"
    /\ transfers[reqs[r].tid].status = "draft"
    /\ LineSatisfied(<<reqs[r].tid, 1>>)
    /\ items[<<reqs[r].tid, 2>>].quantity = 3
    /\ Len(serials[<<reqs[r].tid, 2>>]) = 2
    /\ \A i \in 1..2 : serials[<<reqs[r].tid, 2>>][i].is_validated

\* The entries of line k whose serial string occurs more than once on it.
DuplicateEntries(k) ==
  {i \in 1..Len(serials[k]) :
     \E j \in 1..Len(serials[k]) :
       j # i /\ serials[k][j].serial_number = serials[k][i].serial_number}

\* C18: a serial string can be added to a line of a draft whether or not the
\* line already holds it, and a transfer is submitted with duplicate entries on
\* a line only if every one of them is validated and the entries, duplicates
\* counted one by one, are as many as the expected quantity.
C18_DuplicateSerialsStoredAndCounted ==
  /\ [](\A k \in DOMAIN items, sn \in SerialStrings :
          transfers[k[1]].status = "draft" => ENABLED AddSerial(k, sn))
  /\ [](\A k \in DOMAIN items :
          (transfers[k[1]].status = "submitted" /\ DuplicateEntries(k) # {})
          => /\ \A i \in DuplicateEntries(k) : serials[k][i].is_validated
             /\ Len(serials[k]) = items[k].quantity)

C18_Witness ==
  \E r \in Reqs, k \in DOMAIN items :
    /\ Done(r, "submit") /\ reqs[r].success /\ reqs[r].tid = k[1]
    /\ transfers[k[1]].status = "submitted"
    /\ items[k].quantity = 2
    /\ Len(serials[k]) = 2
    /\ serials[k][1].serial_number = serials[k][2].serial_number
    /\ serials[k][1].is_validated /\ serials[k][2].is_validated

\* C19: when an approve request on a 'submitted' transfer has the gateway's
\* success with document number X, the request ends with the transfer
\* committed as 'posted' with sap_document_number X and a success response
\* carrying the same X.
C19_PostedWithGatewayNumber ==
  [][\A r \in Reqs :
       (reqs[r].pc = "commit" /\ reqs[r].op = "approve" /\ reqs'[r].pc = "done") =>
         /\ reqs'[r].success
         /\ reqs'[r].payload = reqs[r].transfer.sap_document_number
         /\ reqs[r].tid \in DOMAIN transfers'
         /\ transfers'[reqs[r].tid].status = "posted"
         /\ transfers'[reqs[r].tid].sap_document_number
              = reqs[r].transfer.sap_document_number]_vars

\* A 'submitted' transfer as the submission left it: no trace of QC.
Untouched(transfer) ==
  /\ transfer.status = "submitted"
  /\ transfer.qc_approver_id = NULL
  /\ transfer.qc_approved_at = NULL
  /\ transfer.qc_notes = NULL
  /\ transfer.sap_document_number = NULL

C21_NoQcPermissionRefused ==
  [][\A r \in Reqs :
       (/\ Begins(r)
        /\ reqs'[r].op \in {"approve", "reject"}
        /\ ~has_permission(reqs'[r].user, "qc_dashboard"))
       => /\ reqs'[r].pc = "done"
          /\ ~reqs'[r].success
          /\ reqs'[r].error = "QC permissions required"
          /\ reqs'[r].code = 403
          /\ TablesUnchanged
          /\ erp' = erp]_vars

C21_Witness ==
  \E r1, r2 \in Reqs :
    /\ Done(r1, "approve") /\ reqs[r1].user = "u4"
    /\ reqs[r1].error = "QC permissions required"
    /\ Done(r2, "reject") /\ reqs[r2].user = "u2"
    /\ reqs[r2].error = "QC permissions required"
    /\ reqs[r1].tid = reqs[r2].tid
    /\ reqs[r1].tid \in DOMAIN transfers
    /\ Untouched(transfers[reqs[r1].tid])
    /\ erp = << >>

\* Slot r answers its approve request in this step.
ApproveFinishes(r) ==
  /\ reqs[r].pc \in {"sap", "commit"} /\ reqs[r].op = "approve"
  /\ reqs'[r].pc = "done"

C23_OneGatewayCallPerRequest ==
  /\ [](\A r \in Reqs :
          /\ reqs[r].pc = "sap" => reqs[r].sap_calls = 0
          /\ (reqs[r].pc = "commit" /\ reqs[r].op = "approve") => reqs[r].sap_calls = 1)
  /\ [][\A r \in Reqs :
          (reqs[r].pc = "sap" /\ reqs'[r] # reqs[r]) =>
            \/ reqs'[r].pc = "commit" /\ erp' = Append(erp, reqs[r].tid)
            \/ reqs'[r].pc = "done" /\ ~reqs'[r].success /\ erp' = erp]_vars

C23_Witness ==
  \E r1, r2 \in Reqs :
    /\ Done(r1, "approve") /\ reqs[r1].error = "SAP B1 posting failed: Insufficient stock"
    /\ reqs[r2].pc = "commit" /\ reqs[r2].op = "approve" /\ reqs[r2].sap_calls = 1
    /\ reqs[r1].tid = reqs[r2].tid
    /\ Len(erp) = 1

\* C24: an approve request reaches the gateway only after its guard has read
\* the transfer as 'submitted'; one that fails the guard, or finds no such
\* transfer, ends there, and the ERP changes only in the gateway step of a
\* request that passed the guard.
C24_GatewayOnlyAfterGuard ==
  [][/\ \A r \in Reqs :
          (reqs'[r].pc = "sap" /\ reqs'[r] # reqs[r]) =>
            /\ Free(r)
            /\ reqs'[r].tid \in DOMAIN transfers
            /\ transfers[reqs'[r].tid].status = "submitted"
            /\ erp' = erp
     /\ \A r \in Reqs :
          (/\ Begins(r) /\ reqs'[r].op = "approve"
           /\ reqs'[r].tid \in DOMAIN transfers
           /\ transfers[reqs'[r].tid].status # "submitted")
          => reqs'[r].pc = "done" /\ ~reqs'[r].success /\ erp' = erp
     /\ erp' # erp =>
          \E r \in Reqs : /\ reqs[r].pc = "sap" /\ reqs'[r].pc = "commit"
                          /\ erp' = Append(erp, reqs[r].tid)]_vars

C24_Witness ==
  \E r1, r2 \in Reqs :
    /\ Done(r1, "approve") /\ reqs[r1].error = "Only submitted transfers can be approved"
    /\ Done(r2, "approve") /\ reqs[r2].success
    /\ reqs[r1].tid = reqs[r2].tid
    /\ reqs[r1].tid \in DOMAIN transfers
    /\ transfers[reqs[r1].tid].status = "posted"
    /\ Len(erp) = 1

\* C25: when cleanup_database has returned True, every table left in the
\* database is one of the keep set, and every table of the keep set that was
\* there before the run is still there.
C25_OnlyKeepTablesRemain ==
  (mig.pc = "done" /\ mig.returned = "True") =>
    /\ mig.tables \subseteq keep_tables
    /\ keep_tables \cap mig.existing_tables \subseteq mig.tables

\* The QC status every line of a document in the given status carries.
LineStatusFor(status) ==
  IF status = "posted" THEN "approved"
  ELSE IF status = "rejected" THEN "rejected"
  ELSE IF status \in {"draft", "submitted"} THEN "pending"
  ELSE "none"

Answers(r) == reqs'[r] # reqs[r] /\ reqs'[r].pc = "done"

Mutating == {"create", "approve", "reject", "delete"}

\* All the changes request r set out to make are in the tables after the step.
CommittedInFull(r) ==
  LET q == reqs[r]
      lines == {k \in DOMAIN items' : k[1] = q.tid}
  IN  CASE q.op = "create" ->
             \E id \in DOMAIN transfers' \ DOMAIN transfers : transfers'[id] = q.transfer
        [] q.op = "approve" ->
             /\ q.tid \in DOMAIN transfers'
             /\ \A c \in ApproveDirty : transfers'[q.tid][c] = q.transfer[c]
             /\ transfers'[q.tid].status = "posted"
             /\ transfers'[q.tid].sap_document_number # NULL
             /\ \A k \in lines : items'[k].qc_status = "approved"
        [] q.op = "reject" ->
             /\ q.tid \in DOMAIN transfers'
             /\ \A c \in RejectDirty : transfers'[q.tid][c] = q.transfer[c]
             /\ transfers'[q.tid].status = "rejected"
             /\ \A k \in lines : items'[k].qc_status = "rejected"
        [] q.op = "delete" ->
             /\ q.tid \notin DOMAIN transfers'
             /\ lines = {}
             /\ \A k \in DOMAIN serials' : k[1] # q.tid
        [] OTHER -> FALSE

\* C27: a create, approve, reject or delete request that answers success has
\* committed all of its changes in the step that answers, and every other
\* step of such a request, a failure answer included, leaves the tables as
\* they were.
C27_SuccessIffCommittedInFull ==
  [][\A r \in Reqs :
       (reqs'[r] # reqs[r] /\ reqs'[r].pc # "idle" /\ reqs'[r].op \in Mutating) =>
         IF Answers(r) /\ reqs'[r].success
           THEN reqs[r].pc = "commit" /\ CommittedInFull(r)
           ELSE TablesUnchanged]_vars

\* An approve request answered after the gateway reported a failure in its
\* result (it did not raise).
GatewayReportedFailure(r) ==
  /\ Done(r, "approve")
  /\ "sap_result" \in DOMAIN reqs[r]
  /\ ~reqs[r].sap_result.raised

\* C28 as stated: when the gateway reports a failure with error text E, the
\* error text of the failure returned to the approve caller is E itself, and
\* without error text the caller still gets a non-empty reason.
C28_ErrorTextIsGatewayText ==
  \A r \in Reqs :
    GatewayReportedFailure(r) =>
      /\ ~reqs[r].success
      /\ reqs[r].error # ""
      /\ reqs[r].sap_result.has_error => reqs[r].error = reqs[r].sap_result.error

\* C28: when the gateway reports a failure with error text E, the failure
\* returned to the approve caller has the error text 'SAP B1 posting failed: '
\* followed by E unchanged; without error text it is 'SAP B1 posting failed:
\* Unknown SAP error'.
C28_ErrorTextEndsWithGatewayText ==
  \A r \in Reqs :
    GatewayReportedFailure(r) =>
      /\ ~reqs[r].success
      /\ reqs[r].error =
           "SAP B1 posting failed: " \o
             (IF reqs[r].sap_result.has_error THEN reqs[r].sap_result.error
              ELSE "Unknown SAP error")

C28_Witness ==
  \E r, s \in Reqs :
    /\ GatewayReportedFailure(r) /\ reqs[r].sap_result.has_error
    /\ GatewayReportedFailure(s) /\ ~reqs[s].sap_result.has_error

Admins == {u \in DOMAIN users : users[u].role = "admin"}

PermissionRefusals ==
  {"QC permissions required", "Serial transfer permissions required"}

\* C29: a user of role 'admin' passes has_permission for every screen,
\* 'qc_dashboard' included, whatever the stored permissions say, also when
\* they set the screen to false; no request of an admin is refused for
\* want of a permission.
C29_AdminAlwaysGranted ==
  /\ \A u \in Admins : \A screen \in Screens : has_permission(u, screen)
  /\ \A r \in Reqs :
       (reqs[r].pc = "done" /\ reqs[r].user \in Admins) =>
         reqs[r].error \notin PermissionRefusals

C29_Witness ==
  \E r, s \in Reqs :
    /\ users["u5"].permissions.dict["qc_dashboard"] = FALSE
    /\ Done(r, "create") /\ reqs[r].user = "u5" /\ reqs[r].success
    /\ Done(s, "approve") /\ reqs[s].user = "u5" /\ reqs[s].success

Roles == {users[u].role : u \in DOMAIN users}

\* Non-admin rows without stored permissions: get_permissions falls back to
\* the defaults of the role.
OnRoleDefaults ==
  {u \in DOMAIN users \ Admins : users[u].permissions.kind = "null"}

\* Rows whose stored permissions set 'qc_dashboard' to true.
StoredQcGrant ==
  {u \in DOMAIN users :
     /\ users[u].permissions.kind = "json"
     /\ "qc_dashboard" \in DOMAIN users[u].permissions.dict
     /\ users[u].permissions.dict["qc_dashboard"]}

QcDecision(r) == reqs[r].pc # "idle" /\ reqs[r].op \in {"approve", "reject"}

QcRefused(r) ==
  /\ reqs[r].pc = "done"
  /\ ~reqs[r].success
  /\ reqs[r].error = "QC permissions required"

\* C30: the defaults of no role contain 'qc_dashboard'; an approve or reject
\* request of a non-admin without stored permissions, role 'qc' and
\* 'manager' included, is always refused with 'QC permissions required';
\* and a non-admin whose approve or reject request gets past the permission
\* check has stored permissions that set 'qc_dashboard' to true.
C30_QcOnlyByStoredGrant ==
  /\ \A role \in Roles : "qc_dashboard" \notin DOMAIN get_default_permissions(role)
  /\ \A u \in OnRoleDefaults : get_permissions(u) = get_default_permissions(users[u].role)
  /\ \A r \in Reqs :
       QcDecision(r) =>
         /\ reqs[r].user \in OnRoleDefaults => QcRefused(r)
         /\ (reqs[r].user \notin Admins /\ ~QcRefused(r)) => reqs[r].user \in StoredQcGrant

C30_Witness ==
  \E r, s \in Reqs :
    /\ QcDecision(r) /\ QcRefused(r) /\ users[reqs[r].user].role \in {"qc", "manager"}
    /\ reqs[r].user \in OnRoleDefaults
    /\ Done(s, "reject") /\ reqs[s].success /\ reqs[s].user \in StoredQcGrant \ Admins
    /\ reqs[r].tid = reqs[s].tid

\* Request r is a delete request read in this step, for a transfer that
\* exists.
DeleteRead(r) ==
  /\ Begins(r)
  /\ reqs'[r].op = "delete"
  /\ reqs'[r].tid \in DOMAIN transfers

\* C31: delete looks at the actor before it looks at the status: an actor who
\* is neither the creator nor an admin or manager is answered 'Access
\* denied' whatever the status of the transfer, and 'Only draft transfers can
\* be deleted' is answered only to an actor allowed to delete, and only for a
\* transfer that is not a draft.
C31_AccessCheckedBeforeStatus ==
  [][\A r \in Reqs :
       DeleteRead(r) =>
         LET transfer == transfers[reqs'[r].tid]
             u == reqs'[r].user
         IN  /\ ~MayDelete(transfer, u) =>
                  /\ reqs'[r].pc = "done"
                  /\ ~reqs'[r].success
                  /\ reqs'[r].error = "Access denied"
                  /\ reqs'[r].code = 403
             /\ (reqs'[r].pc = "done"
                 /\ reqs'[r].error = "Only draft transfers can be deleted") =>
                  /\ MayDelete(transfer, u)
                  /\ transfer.status # "draft"]_vars

C31_Witness ==
  \E r, s \in Reqs :
    /\ Done(r, "delete") /\ reqs[r].error = "Access denied"
    /\ Done(s, "delete") /\ reqs[s].error = "Only draft transfers can be deleted"
    /\ reqs[r].tid = reqs[s].tid
    /\ reqs[r].tid \in DOMAIN transfers
    /\ transfers[reqs[r].tid].status = "posted"
    /\ ~MayDelete(transfers[reqs[r].tid], reqs[r].user)
    /\ MayDelete(transfers[reqs[s].tid], reqs[s].user)

\* The stored permissions the cleanup script gives to a user of a role.
RolePermissions(role) ==
  [kind |-> "json",
   dict |-> [s \in {"dashboard", "inventory_transfer", "serial_transfer", "user_management"} |->
               \/ s = "dashboard"
               \/ role = "admin"
               \/ role = "manager"
               \/ role = "user" /\ s \in {"inventory_transfer", "serial_transfer"}]]

InvalidStored ==
  {u \in DOMAIN users \ Admins : users[u].permissions.kind = "invalid"}

\* C33: a non-admin whose stored permissions are non-empty and not valid JSON
\* has no permission at all: has_permission is false for every screen, the
\* defaults of the role are not used instead, and every create, approve and
\* reject request of such a user is refused for want of the permission.
C33_InvalidJsonMeansNoPermissions ==
  /\ \A u \in InvalidStored :
       /\ get_permissions(u) = << >>
       /\ \A screen \in Screens : ~has_permission(u, screen)
  /\ \A r \in Reqs :
       (reqs[r].pc # "idle" /\ reqs[r].user \in InvalidStored) =>
         /\ reqs[r].pc = "done"
         /\ ~reqs[r].success
         /\ reqs[r].error \in PermissionRefusals

C33_Witness ==
  \E r, s \in Reqs :
    /\ reqs[r].pc = "done" /\ reqs[r].user \in InvalidStored
    /\ reqs[r].op = "create" /\ reqs[r].error = "Serial transfer permissions required"
    /\ get_default_permissions(users[reqs[r].user].role)["serial_transfer"]
    /\ reqs[s].pc = "done" /\ reqs[s].user \in InvalidStored
    /\ reqs[s].op = "approve" /\ reqs[s].error = "QC permissions required"

AllMigrationTables == {migration_tables[k] : k \in 1..Len(migration_tables)}

AllDefaultData == {default_data[k] : k \in 1..Len(default_data)}

\* The commit of run_migration comes only after every table was created.
MigrationCommitAfterTables ==
  mig.commits > 0 => mig.created = AllMigrationTables /\ AllMigrationTables \subseteq mig.tables

\* run_migration returns False without a commit, and True only with one.
MigrationFalseWithoutCommit ==
  /\ mig.returned = "False" => mig.commits = 0 /\ mig.rows = {}
  /\ mig.returned = "True" => mig.commits = 1

\* After a successful connect the connection is closed exactly once before
\* run_migration returns, and never without one.
MigrationClosedOnce ==
  /\ mig.closes <= 1
  /\ mig.pc = "returned" => mig.closes = (IF mig.connected THEN 1 ELSE 0)

\* C34: run_migration commits only after all tables were created and the
\* default data was inserted; when the connection, a table creation or the
\* commit fails it returns False without committing; and after a successful
\* connect the connection is closed exactly once before it returns.
C34_CommitAfterTablesAndData ==
  /\ MigrationCommitAfterTables
  /\ mig.commits > 0 => mig.rows = AllDefaultData
  /\ MigrationFalseWithoutCommit
  /\ MigrationClosedOnce

====
